---------------------------- MODULE Spec2Model ----------------------------
(***************************************************************************)
(* Model of sploitkit/core/components/config.py: the Config dictionary and *)
(* its Option keys.                                                        *)
(*                                                                         *)
(* Python values are records [k, n, s]: k is the Python type, n the number *)
(* of an int (or 0/1 of a bool), s the characters of a str.  Strings are   *)
(* sequences of one-character strings so that isdigit(), lower(), int()    *)
(* and str() can be computed the way Python computes them.                 *)
(***************************************************************************)
EXTENDS Naturals, Sequences, FiniteSets

VARIABLES
    opts,       \* the Option objects alive in a Config or the registry, by object id
    instances,  \* Option._instances: id(config) -> name -> Option object (0: none)
    d,          \* Config.__d of every Config: name -> (Option, raw value)
    items,      \* the dict part of every Config: Option object -> value, in insertion order
    lastError,  \* Config._last_error of every Config
    last,       \* what the last operation did: its steps in order and how it ended
    inputs      \* what the callers of this run work with: Configs, names, values,
                \* Option arguments

vars == <<opts, instances, d, items, lastError, last, inputs>>

-----------------------------------------------------------------------------
(* Bounds of the model *)

\* Option objects that may be alive at once (the code needs one per Config and name).
MaxOptions == 3

-----------------------------------------------------------------------------
(* Python values *)

None == [k |-> "none", n |-> 0, s |-> <<>>]
Int(i) == [k |-> "int", n |-> i, s |-> <<>>]
Bool(b) == [k |-> "bool", n |-> IF b THEN 1 ELSE 0, s |-> <<>>]
Str(chars) == [k |-> "str", n |-> 0, s |-> chars]

Digits == <<"0", "1", "2", "3", "4", "5", "6", "7", "8", "9">>
UpperChars == <<"A", "B", "C", "D", "E", "F", "G", "H", "I", "J", "K", "L", "M",
                "N", "O", "P", "Q", "R", "S", "T", "U", "V", "W", "X", "Y", "Z">>
LowerChars == <<"a", "b", "c", "d", "e", "f", "g", "h", "i", "j", "k", "l", "m",
                "n", "o", "p", "q", "r", "s", "t", "u", "v", "w", "x", "y", "z">>

Range(f) == {f[i] : i \in DOMAIN f}

\* F(x), with x evaluated once
Once(x, F(_)) == CHOOSE y \in {F(v) : v \in {x}} : TRUE

IndexOf(seq, c) == CHOOSE i \in DOMAIN seq : seq[i] = c

\* str.lower(), character by character
LowerChar(c) == IF c \in Range(UpperChars) THEN LowerChars[IndexOf(UpperChars, c)] ELSE c
Lower(chars) == [i \in DOMAIN chars |-> LowerChar(chars[i])]

\* str.isdigit(): not empty, and every character a digit
IsDigit(chars) == chars # <<>> /\ \A i \in DOMAIN chars : chars[i] \in Range(Digits)

\* int() of a string of digits
RECURSIVE ParseInt(_)
ParseInt(chars) ==
    IF chars = <<>> THEN 0
    ELSE 10 * ParseInt(SubSeq(chars, 1, Len(chars) - 1))
         + (IndexOf(Digits, chars[Len(chars)]) - 1)

\* str() of a non-negative int
RECURSIVE IntToStr(_)
IntToStr(i) ==
    IF i < 10 THEN <<Digits[i + 1]>>
    ELSE IntToStr(i \div 10) \o <<Digits[(i % 10) + 1]>>

\* str() of a value
PyStr(v) ==
    CASE v.k = "none" -> <<"N", "o", "n", "e">>
      [] v.k = "int"  -> IntToStr(v.n)
      [] v.k = "bool" -> IF v.n = 1 THEN <<"T", "r", "u", "e">>
                                    ELSE <<"F", "a", "l", "s", "e">>
      [] OTHER        -> v.s


-----------------------------------------------------------------------------
(* The consoles the Config instances belong to (external to config.py) *)

Scopes == {"root", "child"}
NoScope == "none"

\* hasattr(self, "console")
HasConsole(cfg) == cfg \in Scopes

\* self.console.parent.config, NoScope when console.parent is None
Parent(cfg) == IF cfg = "child" THEN "root" ELSE NoScope

\* id(parent): the registry keys a Config by its object identity
Id(cfg) == cfg

\* console.__dict__.get(n, ""): the attributes template expansion can read
ConsoleAttr(cfg, n) == IF n = <<"a">> THEN <<"4">> ELSE <<>>

-----------------------------------------------------------------------------
(* Option objects *)

NameK == <<"K">>
NameA == <<"A">>
Names == {NameK, NameA}

\* Option._instances of a Config nothing was bound to
NoInstance == 0

\* the function __set_func installs for a hook given as None, called with the
\* arguments a: a[-1] if len(a) > 0 else None
DefaultHook(a) == IF Len(a) > 0 THEN a[Len(a)] ELSE None

\* Option.__init__: args are the constructor's arguments after name; the
\* instance starts with the class attributes _reset = False, old_value = None
\* and no config attribute
NewOption(name, args) ==
    [name        |-> name,
     description |-> args.description,
     required    |-> args.required,
     hasChoices  |-> args.choices # "none",
     choices     |-> CASE args.choices = "bool" -> <<Str(<<"t", "r", "u", "e">>),
                                                     Str(<<"f", "a", "l", "s", "e">>)>>
                       [] args.choices = "ab"   -> <<Str(<<"a">>), Str(<<"b">>)>>
                       [] OTHER                 -> <<>>,
     transform   |-> args.transform,
     validate    |-> IF args.validate = "none" /\ args.choices # "none"
                     THEN "choices" ELSE args.validate,
     callback    |-> args.callback,
     reset       |-> FALSE,
     config      |-> NoScope,
     old_value   |-> None]

\* Option(name): every argument left at its default
PlainArgs == [description |-> "", required |-> FALSE, choices |-> "none",
              transform |-> "none", validate |-> "none", callback |-> "none"]

-----------------------------------------------------------------------------
(* The state the operations work on, as one record:                        *)
(*   st.opts, st.instances, st.d, st.items, st.lastError                   *)

\* an entry of Config.__d: the tuple (Option, raw value), or no entry
NoEntry == [has |-> FALSE, opt |-> NoInstance, raw |-> None]
Entry(o, v) == [has |-> TRUE, opt |-> o, raw |-> v]

\* what a call gives back: the exception it raised ("none": it returned) and
\* the value it returned
Returned(v) == [exc |-> "none", v |-> v]
Raised(e) == [exc |-> e, v |-> None]

KeyErrorExc == "KeyError"

\* raise KeyError(key): the exception carries the key it was raised for
RaisedKeyError(key, v) == [exc |-> KeyErrorExc, v |-> v, key |-> key]

\* a read that answers None where the key is found nowhere, as dict.get does
RECURSIVE GetItemOrNone(_, _, _)
GetItemOrNone(st, cfg, name) ==
    IF name \in Names /\ st.d[cfg][name].has
    THEN Returned(st.d[cfg][name].raw)
    ELSE IF HasConsole(cfg) /\ Parent(cfg) # NoScope
         THEN GetItemOrNone(st, Parent(cfg), name)
         ELSE Returned(None)
RequiredExc == "ValueError: must be defined"
InvalidExc == "ValueError: Invalid value"
UnboundExc == "Exception: Unbound option"
NoConsoleExc == "AttributeError: console"

\* __getitem__ handing out the value the way Option.value normalizes it
RECURSIVE GetItemCoerced(_, _, _)
GetItemCoerced(st, cfg, name) ==
    IF name \in Names /\ st.d[cfg][name].has
    THEN LET raw == st.d[cfg][name].raw
         IN  Returned(IF raw.k = "str" /\ IsDigit(raw.s) THEN Int(ParseInt(raw.s)) ELSE raw)
    ELSE IF HasConsole(cfg) /\ Parent(cfg) # NoScope
         THEN GetItemCoerced(st, Parent(cfg), name)
         ELSE Raised(KeyErrorExc)

\* Config.__getitem__: the raw value stored under the key's name, else the
\* parent's, else KeyError
RECURSIVE GetItem(_, _, _)
GetItem(st, cfg, name) ==
    IF name \in Names /\ st.d[cfg][name].has
    THEN Returned(st.d[cfg][name].raw)
    ELSE IF HasConsole(cfg) /\ Parent(cfg) # NoScope
         THEN GetItem(st, Parent(cfg), name)
         ELSE RaisedKeyError(name, None)

\* option() without the parent: only the Config's own entries are found
GetOptionLocal(st, cfg, name) ==
    IF name \in Names /\ st.d[cfg][name].has
    THEN [exc |-> "none", v |-> st.d[cfg][name].opt]
    ELSE [exc |-> KeyErrorExc, v |-> NoInstance]

\* Config.option: the Option stored under the key's name, else the parent's,
\* else KeyError (v is the Option object here)
RECURSIVE GetOption(_, _, _)
GetOption(st, cfg, name) ==
    IF name \in Names /\ st.d[cfg][name].has
    THEN [exc |-> "none", v |-> st.d[cfg][name].opt]
    ELSE IF HasConsole(cfg) /\ Parent(cfg) # NoScope
         THEN GetOption(st, Parent(cfg), name)
         ELSE RaisedKeyError(name, NoInstance)

\* Option.input: the raw value, read from the Config the option is linked to
Input(st, o) ==
    IF st.opts[o].config # NoScope
    THEN GetItem(st, st.opts[o].config, st.opts[o].name)
    ELSE Raised(UnboundExc)

-----------------------------------------------------------------------------
(* Option.value, stage by stage *)

IsLowerName(chars) == chars # <<>> /\ \A i \in DOMAIN chars : chars[i] \in Range(LowerChars)

\* re.findall(r'\{([a-z]+)\}', ...) finds something
HasPlaceholder(chars) ==
    \E i, j \in DOMAIN chars :
        /\ i < j
        /\ chars[i] = "{"
        /\ chars[j] = "}"
        /\ IsLowerName(SubSeq(chars, i + 1, j - 1))

\* str.format(**kw) from position i on, kw holding the names findall found:
\* "{{" and "}}" are literal braces, "{name}" is replaced, anything else that
\* involves a brace raises
RECURSIVE FormatFrom(_, _, _)
FormatFrom(chars, i, cfg) ==
    IF i > Len(chars) THEN [ok |-> TRUE, out |-> <<>>]
    ELSE IF chars[i] \notin {"{", "}"}
    THEN LET rest == FormatFrom(chars, i + 1, cfg)
         IN  [ok |-> rest.ok, out |-> <<chars[i]>> \o rest.out]
    ELSE IF i < Len(chars) /\ chars[i + 1] = chars[i]
    THEN LET rest == FormatFrom(chars, i + 2, cfg)
         IN  [ok |-> rest.ok, out |-> <<chars[i]>> \o rest.out]
    ELSE IF chars[i] = "}" \/ ~ \E j \in (i + 1)..Len(chars) : chars[j] = "}"
    THEN [ok |-> FALSE, out |-> <<>>]
    ELSE LET j == CHOOSE j \in (i + 1)..Len(chars) :
                      /\ chars[j] = "}"
                      /\ \A m \in (i + 1)..(j - 1) : chars[m] # "}"
             field == SubSeq(chars, i + 1, j - 1)
             rest == FormatFrom(chars, j + 1, cfg)
         IN  IF IsLowerName(field)
             THEN [ok |-> rest.ok, out |-> ConsoleAttr(cfg, field) \o rest.out]
             ELSE [ok |-> FALSE, out |-> <<>>]

\* lines 172-182: expand the {name} placeholders from the console's attributes;
\* a value that is no string, a format error or a missing console leave the
\* value as it is
Expand(v, cfg) ==
    IF v.k # "str" THEN v
    ELSE IF HasPlaceholder(v.s) /\ ~HasConsole(cfg) THEN v
    ELSE LET f == FormatFrom(v.s, 1, cfg)
         IN  IF f.ok THEN Str(f.out) ELSE v

\* name.endswith("FOLDER") or name.endswith("WORKSPACE")
EndsWith(chars, suffix) ==
    /\ Len(chars) >= Len(suffix)
    /\ SubSeq(chars, Len(chars) - Len(suffix) + 1, Len(chars)) = suffix
IsPathName(name) ==
    \/ EndsWith(name, <<"F", "O", "L", "D", "E", "R">>)
    \/ EndsWith(name, <<"W", "O", "R", "K", "S", "P", "A", "C", "E">>)

\* str(Path(value, expand=True)) of utils.path: the absolute form of the path
\* under the working directory "/"
PathExpand(v) ==
    LET chars == PyStr(v)
    IN  IF chars # <<>> /\ chars[1] = "/" THEN Str(chars) ELSE Str(<<"/">> \o chars)

\* lines 188-194: a string of digits becomes an int; a string whose lower case
\* is "true" or "false" becomes a bool; whatever is no string is left alone
Coerce(v) ==
    IF v.k # "str" THEN v
    ELSE IF IsDigit(v.s) THEN Int(ParseInt(v.s))
    ELSE IF Lower(v.s) \in {<<"f", "a", "l", "s", "e">>, <<"t", "r", "u", "e">>}
         THEN Bool(Lower(v.s) = <<"t", "r", "u", "e">>)
         ELSE v

\* the transform a user passes to Option(...) in this model: lambda s, v: str(v) + "!"
UserTransform(v) == Str(PyStr(v) \o <<"!">>)

\* isinstance(self.transform, type(lambda:0)): __set_func stored
\* func.__get__(self, ...), a bound method, which is no function object
TransformIsFunction(o) == FALSE

\* lines 196-198: the transform is called only when it is a function named <lambda>
Transform(st, o, v) ==
    IF TransformIsFunction(o)
    THEN IF st.opts[o].transform = "none" THEN DefaultHook(<<o, v>>) ELSE UserTransform(v)
    ELSE v

\* Option.value: the normalized value of the option, or the exception raised
Value(st, o) ==
    LET in == Input(st, o)
        opt == st.opts[o]
    IN  IF in.exc # "none" THEN in
        ELSE IF opt.required /\ in.v = None THEN Raised(RequiredExc)
        ELSE LET expanded == Expand(in.v, opt.config)
                 path == IF IsPathName(opt.name) THEN PathExpand(expanded) ELSE expanded
             IN  Returned(Transform(st, o, Coerce(path)))

-----------------------------------------------------------------------------
(* Option.copy *)

\* what Option(...) can receive as a hook: None, a function, or a bound method
\* of an Option; the hook attributes of an Option hold what line 137 stored,
\* func.__get__(self, self.__class__), a bound method
HookAttribute(opt, hook) == "method"

\* Option.__set_func(func, name): None becomes the default lambda, a function
\* is stored, anything else raises
SetFunc(func, hook) ==
    IF func \in {"none", "function"} THEN "none"
    ELSE CASE hook = "transform" -> "Exception: Bad transform lambda"
           [] hook = "validate"  -> "Exception: Bad validate lambda"
           [] OTHER              -> "Exception: Bad callback lambda"

\* o.copy(): Option(name, description, required, choices, self.transform,
\* self.validate, self.callback); the result is the state, the exception
\* raised and the new instance
OptionCopy(st, o) ==
    LET opt == st.opts[o]
        failed(e) == [st |-> st, exc |-> e, new |-> NoInstance]
        t == SetFunc(HookAttribute(opt, "transform"), "transform")
        v == SetFunc(HookAttribute(opt, "validate"), "validate")
        c == SetFunc(HookAttribute(opt, "callback"), "callback")
    IN  IF t # "none" THEN failed(t)
        ELSE IF v # "none" THEN failed(v)
        ELSE IF c # "none" THEN failed(c)
        ELSE [st  |-> [st EXCEPT !.opts = Append(@, [opt EXCEPT !.reset = FALSE,
                                                               !.config = NoScope,
                                                               !.old_value = None])],
              exc |-> "none",
              new |-> Len(st.opts) + 1]

-----------------------------------------------------------------------------
(* Config.__setitem__ *)

\* Bind without the lookup: every option bound becomes the registered one
BindAlwaysSelf(st, o, cfg) ==
    [st  |-> [st EXCEPT !.opts[o].config = cfg,
                        !.instances[Id(cfg)][st.opts[o].name] = o],
     key |-> o]

\* Option.bind: register the option o as the key of the Config, or retrieve
\* the one already registered under its name; the result is the new state and
\* the registered option
Bind(st, o, cfg) ==
    LET i == Id(cfg)
        name == st.opts[o].name
        found == st.instances[i][name]
    IN  IF found = NoInstance
        THEN [st  |-> [st EXCEPT !.opts[o].config = cfg, !.instances[i][name] = o],
              key |-> o]
        ELSE [st  |-> [st EXCEPT !.opts[found].config = cfg],
              key |-> found]

\* the keys an assignment can be given: an Option object that exists already
\* (obj), or a string, a tuple or a newly constructed Option (obj = NoInstance),
\* from which lines 34-37 construct an Option
ObjKey(o) == [form |-> "object", obj |-> o, name |-> <<>>, args |-> PlainArgs,
              reset |-> FALSE]
StrKey(name) == [form |-> "str", obj |-> NoInstance, name |-> name, args |-> PlainArgs,
                 reset |-> FALSE]
TupleKey(name, args) == [form |-> "tuple", obj |-> NoInstance, name |-> name,
                         args |-> args, reset |-> FALSE]
OptionKey(name, args, reset) == [form |-> "option", obj |-> NoInstance, name |-> name,
                                 args |-> args, reset |-> reset]

\* lines 34-38: the Option object the key stands for (tmp), constructed when
\* the key is no Option that exists already
WithKey(st, key) ==
    IF key.obj # NoInstance
    THEN [st |-> st, tmp |-> key.obj]
    ELSE [st  |-> [st EXCEPT !.opts = Append(@, [NewOption(key.name, key.args)
                                                   EXCEPT !.reset = key.reset])],
          tmp |-> Len(st.opts) + 1]

\* lines 40-41: an Option constructed for this assignment that is not the
\* registered one is dropped
DropTmp(st, key, tmp, bound) ==
    IF key.obj = NoInstance /\ tmp # bound
    THEN [st EXCEPT !.opts = SubSeq(@, 1, Len(@) - 1)]
    ELSE st

\* the validator a user passes to Option(...) in this model:
\* lambda s: s.value is not None
UserValidate(v) == v # None

\* the validator of lines 119-120:
\* str(s.value).lower() in [str(_).lower() for _ in s.choices]
ChoicesValidate(v, choices) ==
    Lower(PyStr(v)) \in {Lower(PyStr(choices[i])) : i \in DOMAIN choices}

\* key.validate(): whether the validator's result is true, or the exception
\* reading the value raised; the default hook returns the option itself
Validate(st, o) ==
    LET opt == st.opts[o]
        val == Value(st, o)
    IN  IF opt.validate = "none" THEN [exc |-> "none", ok |-> TRUE]
        ELSE IF val.exc # "none" THEN [exc |-> val.exc, ok |-> FALSE]
        ELSE IF opt.validate = "choices"
             THEN [exc |-> "none", ok |-> ChoicesValidate(val.v, opt.choices)]
             ELSE [exc |-> "none", ok |-> UserValidate(val.v)]

\* line 48, dict.__setitem__(key, value): the key keeps its place when it is
\* in the dict already
DictSet(seq, o, v) ==
    IF \E i \in DOMAIN seq : seq[i].opt = o
    THEN [i \in DOMAIN seq |-> IF seq[i].opt = o THEN [opt |-> o, val |-> v] ELSE seq[i]]
    ELSE Append(seq, [opt |-> o, val |-> v])

\* the message of the exception a raising callback raises
CallbackMessage == "callback failed"
NoError == ""

\* how far an assignment has come: the state, the exception raised so far
\* ("none": still running), the steps taken, and the option it works on
Outcome(st, exc, trace, o) == [st |-> st, exc |-> exc, trace |-> trace, key |-> o]

\* lines 34-41: the key becomes the Option registered for the Config
StepBind(st, cfg, key) ==
    LET made == WithKey(st, key)
        b == Bind(made.st, made.tmp, cfg)
    IN  Outcome(DropTmp(b.st, key, made.tmp, b.key), "none", <<"bind">>, b.key)

\* the previous value forgotten: old_value of a newly initialized Option
StepOldValueFresh(r, cfg) ==
    IF r.exc # "none" THEN r
    ELSE [r EXCEPT !.st.opts[r.key].old_value = None, !.trace = Append(@, "old_value")]

\* line 43: key.old_value = key.value if self.__d.get(key.name) else None
StepOldValue(r, cfg) ==
    LET name == r.st.opts[r.key].name
        old == IF r.st.d[cfg][name].has THEN Value(r.st, r.key) ELSE Returned(None)
    IN  IF r.exc # "none" THEN r
        ELSE IF old.exc # "none"
        THEN [r EXCEPT !.exc = old.exc, !.trace = Append(@, "old_value")]
        ELSE [r EXCEPT !.st.opts[r.key].old_value = old.v,
                       !.trace = Append(@, "old_value")]

\* line 45: self.__d[key.name] = (key, value)
StepStore(r, cfg, value) ==
    IF r.exc # "none" THEN r
    ELSE [r EXCEPT !.st.d[cfg][r.st.opts[r.key].name] = Entry(r.key, value),
                   !.trace = Append(@, "store")]

\* lines 46-47: if not key.validate(): raise ValueError("Invalid value")
StepValidate(r) ==
    LET valid == Validate(r.st, r.key)
    IN  IF r.exc # "none" THEN r
        ELSE [r EXCEPT !.exc = IF valid.exc # "none" THEN valid.exc
                                ELSE IF valid.ok THEN "none" ELSE InvalidExc,
                       !.trace = Append(@, "validate")]

\* line 48: super(Config, self).__setitem__(key, value)
StepDict(r, cfg, value) ==
    IF r.exc # "none" THEN r
    ELSE [r EXCEPT !.st.items[cfg] = DictSet(@, r.key, value),
                   !.trace = Append(@, "dict")]

\* the callback called outside the try: its exception ends the assignment
StepCallbackPropagates(r, cfg) ==
    IF r.exc # "none" THEN r
    ELSE IF r.st.opts[r.key].callback = "raise"
    THEN [r EXCEPT !.exc = "Exception: callback failed", !.trace = Append(@, "callback")]
    ELSE [r EXCEPT !.trace = Append(@, "callback")]

\* lines 49-52: run the callback; an exception it raises is caught and its
\* message kept as _last_error
StepCallback(r, cfg) ==
    IF r.exc # "none" THEN r
    ELSE IF r.st.opts[r.key].callback = "raise"
    THEN [r EXCEPT !.st.lastError[cfg] = CallbackMessage,
                   !.trace = Append(@, "callback")]
    ELSE [r EXCEPT !.trace = Append(@, "callback")]

\* the reset moved into the try block: a raising callback skips it
StepResetInTry(r, cfg) ==
    IF r.exc # "none" \/ ~r.st.opts[r.key].reset THEN r
    ELSE IF r.st.opts[r.key].callback = "raise" THEN r
    ELSE IF ~HasConsole(cfg) THEN [r EXCEPT !.exc = NoConsoleExc]
    ELSE [r EXCEPT !.trace = Append(@, "reset")]

\* lines 54-55: if key._reset: self.console.reset()
StepReset(r, cfg) ==
    IF r.exc # "none" \/ ~r.st.opts[r.key].reset THEN r
    ELSE IF ~HasConsole(cfg) THEN [r EXCEPT !.exc = NoConsoleExc]
    ELSE [r EXCEPT !.trace = Append(@, "reset")]

\* an assignment that takes the value back when validation fails
SetItemRollback(st, cfg, key, value) ==
    LET before == StepOldValue(StepBind(st, cfg, key), cfg)
        checked == StepValidate(StepStore(before, cfg, value))
    IN  IF checked.exc = InvalidExc
        THEN [checked EXCEPT !.st = before.st]
        ELSE StepReset(StepCallback(StepDict(checked, cfg, value), cfg), cfg)

\* an assignment that validates before it stores: the validator sees the
\* value stored before
SetItemValidateFirst(st, cfg, key, value) ==
    StepReset(
        StepCallback(
            StepDict(
                StepStore(
                    StepValidate(StepOldValue(StepBind(st, cfg, key), cfg)),
                    cfg, value),
                cfg, value),
            cfg),
        cfg)

\* Config.__setitem__(key, value)
SetItem(st, cfg, key, value) ==
    StepReset(
        StepCallback(
            StepDict(
                StepValidate(
                    StepStore(
                        StepOldValue(StepBind(st, cfg, key), cfg),
                        cfg, value)),
                cfg, value),
            cfg),
        cfg)

-----------------------------------------------------------------------------
(* The other operations of Config *)

\* key in self: the dict part holds Option objects, so only an Option object
\* that is one of its keys is found (a string or a tuple never is)
Contains(st, cfg, key) ==
    key.obj # NoInstance /\ \E i \in DOMAIN st.items[cfg] : st.items[cfg][i].opt = key.obj

\* the name __getitem__ looks a key up by: an Option's name, else the key itself
KeyName(st, key) ==
    CASE key.obj # NoInstance -> st.opts[key.obj].name
      [] key.form = "tuple"   -> <<>>
      [] OTHER                -> key.name

\* Config.setdefault(key, value): assign when the key is not in the dict, then
\* read the key
SetDefault(st, cfg, key, value) ==
    LET r == IF Contains(st, cfg, key)
             THEN Outcome(st, "none", <<>>, key.obj)
             ELSE SetItem(st, cfg, key, value)
        read == GetItem(r.st, cfg, KeyName(r.st, key))
    IN  IF r.exc # "none" THEN r ELSE [r EXCEPT !.exc = read.exc]

\* Config.copy(config, key): self[config.option(key)] = config[key]
Copy(st, cfg, config, name) ==
    LET value == GetItem(st, config, name)
        option == GetOption(st, config, name)
    IN  IF value.exc # "none" THEN Outcome(st, value.exc, <<>>, NoInstance)
        ELSE IF option.exc # "none" THEN Outcome(st, option.exc, <<>>, NoInstance)
        ELSE SetItem(st, cfg, ObjKey(option.v), value.v)

\* lines 96-97 of Config.update, for the keys of the Config d from position i
\* on: self[k] = d[k], until one raises; the steps of every assignment begun
\* are kept
RECURSIVE UpdateFrom(_, _, _, _, _)
UpdateFrom(st, cfg, config, keys, i) ==
    IF i > Len(keys) THEN Outcome(st, "none", <<>>, NoInstance)
    ELSE LET value == GetItem(st, config, st.opts[keys[i]].name)
         IN  IF value.exc # "none" THEN Outcome(st, value.exc, <<>>, keys[i])
             ELSE Once(SetItem(st, cfg, ObjKey(keys[i]), value.v),
                       LAMBDA r : IF r.exc # "none" \/ i = Len(keys) THEN r
                                  ELSE [UpdateFrom(r.st, cfg, config, keys, i + 1)
                                            EXCEPT !.trace = r.trace \o @])

\* Config.update(config) with another Config as its one argument: its keys
\* are the Option objects of its dict part, in insertion order
Update(st, cfg, config) ==
    UpdateFrom(st, cfg, config,
               [i \in DOMAIN st.items[config] |-> st.items[config][i].opt], 1)

\* a mapping that takes no account of the write path: every value put into
\* the store as it is
RECURSIVE UpdateEntriesRaw(_, _, _, _)
UpdateEntriesRaw(st, cfg, entries, i) ==
    IF i > Len(entries) THEN Outcome(st, "none", <<>>, NoInstance)
    ELSE Once(StepBind(st, cfg, entries[i].key),
              LAMBDA b : UpdateEntriesRaw(
                             [b.st EXCEPT !.d[cfg][b.st.opts[b.key].name]
                                              = Entry(b.key, entries[i].value)],
                             cfg, entries, i + 1))

\* lines 96-97 with a dict as d, and lines 98-99: self[k] = v for the entries
\* from position i on, until one raises; the steps of every assignment begun
\* are kept
RECURSIVE UpdateEntries(_, _, _, _)
UpdateEntries(st, cfg, entries, i) ==
    IF i > Len(entries) THEN Outcome(st, "none", <<>>, NoInstance)
    ELSE Once(SetItem(st, cfg, entries[i].key, entries[i].value),
              LAMBDA r : IF r.exc # "none" \/ i = Len(entries) THEN r
                         ELSE [UpdateEntries(r.st, cfg, entries, i + 1)
                                   EXCEPT !.trace = r.trace \o @])

TypeErrorExc == "TypeError: update expected at most 1 arguments"

\* Config.update(*args, **kwargs) with dicts as positional arguments: a dict
\* and the keyword arguments are sequences of entries [key, value]
UpdateCall(st, cfg, args, kwargs) ==
    IF Len(args) > 1 THEN Outcome(st, TypeErrorExc, <<>>, NoInstance)
    ELSE Once(IF Len(args) > 0 THEN UpdateEntries(st, cfg, args[1], 1)
              ELSE Outcome(st, "none", <<>>, NoInstance),
              LAMBDA m : IF m.exc # "none" THEN m
                         ELSE [UpdateEntries(m.st, cfg, kwargs, 1)
                                   EXCEPT !.trace = m.trace \o @])

-----------------------------------------------------------------------------
(* Config.items and Config.keys *)

\* the order of the characters of a name in a comparison of strings
CharOrder == Digits \o UpperChars \o LowerChars

\* a < b for two strings
RECURSIVE NameLess(_, _)
NameLess(a, b) ==
    IF a = <<>> THEN b # <<>>
    ELSE IF b = <<>> THEN FALSE
    ELSE IF a[1] = b[1] THEN NameLess(Tail(a), Tail(b))
    ELSE IndexOf(CharOrder, a[1]) < IndexOf(CharOrder, b[1])

\* sorted(self, key=lambda x: x.name): the Option objects of a sequence in
\* the order of their names, those of equal names in the order they had
RECURSIVE SortedByName(_, _)
SortedByName(st, seq) ==
    IF seq = <<>> THEN <<>>
    ELSE LET o == seq[Len(seq)]
             front == SortedByName(st, SubSeq(seq, 1, Len(seq) - 1))
             k == Cardinality({i \in DOMAIN front :
                                  ~NameLess(st.opts[o].name, st.opts[front[i]].name)})
         IN  SubSeq(front, 1, k) \o <<o>> \o SubSeq(front, k + 1, Len(front))

\* sorted(self.__d.keys())
RECURSIVE SortedNames(_)
SortedNames(names) ==
    IF names = {} THEN <<>>
    ELSE LET first == CHOOSE n \in names : \A m \in names \ {n} : NameLess(n, m)
         IN  <<first>> \o SortedNames(names \ {first})

\* lines 63-64 from position i on: one tuple for each Option, until reading
\* a value raises; v is what was yielded
RECURSIVE ItemsFrom(_, _, _)
ItemsFrom(st, sorted, i) ==
    IF i > Len(sorted) THEN [exc |-> "none", v |-> <<>>]
    ELSE LET opt == st.opts[sorted[i]]
             val == Value(st, sorted[i])
             rest == ItemsFrom(st, sorted, i + 1)
         IN  IF val.exc # "none" THEN [exc |-> val.exc, v |-> <<>>]
             ELSE [rest EXCEPT !.v = <<[name |-> opt.name, description |-> opt.description,
                                        value |-> val.v, required |-> opt.required]>> \o @]

\* Config.items(): the tuples of the Options that are keys of the dict part
Items(st, cfg) ==
    ItemsFrom(st, SortedByName(st, [i \in DOMAIN st.items[cfg] |-> st.items[cfg][i].opt]), 1)

\* Config.keys(): the names of Config.__d
KeysOf(st, cfg) == SortedNames({n \in Names : st.d[cfg][n].has})

-----------------------------------------------------------------------------
(* The state machine *)

State == [opts |-> opts, instances |-> instances, d |-> d, items |-> items,
          lastError |-> lastError]

\* the raw values the callers assign
Values == {None, Int(0), Bool(FALSE), Str(<<"4", "2">>), Str(<<"t", "r", "u", "e">>),
           Str(<<"c">>)}

\* the arguments the callers construct Options with
RequiredArgs == [PlainArgs EXCEPT !.required = TRUE]
ChoicesArgs == [PlainArgs EXCEPT !.choices = "ab"]
ValidateArgs == [PlainArgs EXCEPT !.validate = "user"]
CallbackArgs == [PlainArgs EXCEPT !.callback = "raise"]
BoolChoicesArgs == [PlainArgs EXCEPT !.choices = "bool"]
RequiredChoicesArgs == [PlainArgs EXCEPT !.required = TRUE, !.choices = "ab"]
TransformArgs == [PlainArgs EXCEPT !.transform = "user"]
HooksArgs == [PlainArgs EXCEPT !.transform = "user", !.validate = "user",
                               !.callback = "raise"]
Args == {PlainArgs, RequiredArgs, ChoicesArgs, ValidateArgs, CallbackArgs}

\* the keys the callers assign to in a Config: a string, a tuple, a new Option
\* (on which the caller may have set _reset), or an Option object the Config
\* handed out (an Option of another Config arrives through copy and update)
Keys(cfg) ==
    {StrKey(n) : n \in inputs.names}
    \cup {TupleKey(n, a) : n \in inputs.names, a \in inputs.args \ {PlainArgs}}
    \cup {OptionKey(n, a, r) : n \in inputs.names,
                               a \in inputs.args \cap {PlainArgs, CallbackArgs},
                               r \in inputs.resets}
    \cup {ObjKey(instances[Id(cfg)][n]) : n \in {m \in Names : instances[Id(cfg)][m] # NoInstance}}

\* an entry of a dict or of the keyword arguments: a name and its value
KeyValue(name, value) == [key |-> StrKey(name), value |-> value]

\* a new Option object can be constructed
CanConstruct(key) == key.obj # NoInstance \/ Len(opts) < MaxOptions

NoLast == [op |-> "init", cfg |-> NoScope, name |-> <<>>, form |-> "none", value |-> None,
           nargs |-> 0, entries |-> <<>>, named |-> <<>>,
           exc |-> "none", trace |-> <<>>, had |-> FALSE]

\* the variables after an operation that ended as r; nargs and entries are
\* the positional arguments and the key/value pairs an update was called with
ApplyCall(r, op, cfg, name, form, value, nargs, entries) ==
    \E done \in {r} :
        /\ opts' = done.st.opts
        /\ instances' = done.st.instances
        /\ d' = done.st.d
        /\ items' = done.st.items
        /\ lastError' = done.st.lastError
        /\ last' = [op |-> op, cfg |-> cfg, name |-> name, form |-> form, value |-> value,
                    nargs |-> nargs, entries |-> entries, named |-> <<>>,
                    exc |-> done.exc, trace |-> done.trace,
                    had |-> name \in Names /\ d[cfg][name].has]
        /\ UNCHANGED inputs

Apply(r, op, cfg, name, form, value) == ApplyCall(r, op, cfg, name, form, value, 0, <<>>)

\* every Config just constructed, Config(): nothing stored, nothing registered
InitWith(in) ==
    /\ opts = <<>>
    /\ instances = [i \in Scopes |-> [n \in Names |-> NoInstance]]
    /\ d = [c \in Scopes |-> [n \in Names |-> NoEntry]]
    /\ items = [c \in Scopes |-> <<>>]
    /\ lastError = [c \in Scopes |-> NoError]
    /\ last = NoLast
    /\ inputs = in

\* one Config, every value and every kind of Option
Init == InitWith([scopes |-> {"root"}, names |-> {NameK}, values |-> Values,
                  args |-> Args, resets |-> BOOLEAN, updates |-> {}])

\* config[key] = value
DoSet ==
    \E cfg \in inputs.scopes : \E key \in Keys(cfg), value \in inputs.values :
        /\ CanConstruct(key)
        /\ Apply(SetItem(State, cfg, key, value), "set", cfg,
                 IF key.obj # NoInstance THEN opts[key.obj].name ELSE key.name,
                 key.form, value)

\* config.setdefault(key, value)
DoSetDefault ==
    \E cfg \in inputs.scopes : \E key \in Keys(cfg), value \in inputs.values :
        /\ CanConstruct(key)
        /\ Apply(SetDefault(State, cfg, key, value), "setdefault", cfg,
                 IF key.obj # NoInstance THEN opts[key.obj].name ELSE key.name,
                 key.form, value)

\* cfg.copy(config, name)
DoCopy ==
    \E cfg \in inputs.scopes, config \in inputs.scopes, name \in inputs.names :
        Apply(Copy(State, cfg, config, name), "copy", cfg, name, "object", None)

\* cfg.update(config)
DoUpdate ==
    \E cfg \in inputs.scopes, config \in inputs.scopes :
        /\ items[config] # <<>>
        /\ ApplyCall(Update(State, cfg, config), "update", cfg,
                     opts[items[config][Len(items[config])].opt].name, "object", None, 1,
                     [i \in DOMAIN items[config] |->
                         [key   |-> ObjKey(items[config][i].opt),
                          value |-> GetItem(State, config,
                                            opts[items[config][i].opt].name).v]])

\* two Configs, the child's console having the root's console as its parent
InitScopes == InitWith([scopes |-> Scopes, names |-> {NameK},
                        values |-> {Str(<<"4", "2">>), Str(<<"c">>)},
                        args |-> {PlainArgs, ChoicesArgs}, resets |-> {FALSE}, updates |-> {}])

\* one Config whose options are declared with choices
InitChoices == InitWith([scopes |-> {"root"}, names |-> {NameK},
                         values |-> {None, Bool(FALSE), Str(<<"a">>), Str(<<"A">>),
                                     Str(<<"c">>), Str(<<"T", "R", "U", "E">>)},
                         args |-> {ChoicesArgs, BoolChoicesArgs, RequiredChoicesArgs},
                         resets |-> {FALSE}, updates |-> {}])

\* the keys a caller reads with: a name, or an Option object
ReadKeys == {StrKey(n) : n \in Names} \cup {ObjKey(o) : o \in DOMAIN opts}

\* the variables after a read that ended as r: nothing but the record of the
\* call changes; named is the key a KeyError carries
Read(r, op, cfg, key) ==
    /\ last' = [NoLast EXCEPT !.op = op, !.cfg = cfg, !.name = KeyName(State, key),
                              !.form = key.form, !.exc = r.exc,
                              !.named = IF r.exc = KeyErrorExc THEN r.key ELSE <<>>]
    /\ UNCHANGED <<opts, instances, d, items, lastError, inputs>>

\* cfg[key]
DoGet ==
    \E cfg \in inputs.scopes, key \in ReadKeys :
        \E r \in {GetItem(State, cfg, KeyName(State, key))} : Read(r, "get", cfg, key)

\* cfg.option(key)
DoOption ==
    \E cfg \in inputs.scopes, key \in ReadKeys :
        \E r \in {GetOption(State, cfg, KeyName(State, key))} : Read(r, "option", cfg, key)

\* o.copy() for an Option o some Config holds
DoOptionCopy ==
    \E o \in DOMAIN opts :
        /\ Len(opts) < MaxOptions
        /\ Apply([st |-> OptionCopy(State, o).st, exc |-> OptionCopy(State, o).exc,
                  trace |-> <<>>],
                 "option.copy", opts[o].config, opts[o].name, "object", None)

\* cfg.update(*args, **kwargs), the positional arguments being dicts
DoUpdateCall ==
    \E cfg \in inputs.scopes, u \in inputs.updates :
        LET entries == (IF Len(u.args) > 0 THEN u.args[1] ELSE <<>>) \o u.kwargs
        IN  /\ Len(opts) + Len(entries) <= MaxOptions
            /\ ApplyCall(UpdateCall(State, cfg, u.args, u.kwargs), "update", cfg,
                         IF entries = <<>> THEN <<>> ELSE entries[Len(entries)].key.name,
                         "str", None, Len(u.args), entries)

\* no reference keeps the Config alive: no Option is linked to it (the
\* registry of line 105 keeps every bound Option, and with it the Config of
\* its config attribute) and no console has its console as parent
Unreferenced(cfg) ==
    /\ \A o \in DOMAIN opts : opts[o].config # cfg
    /\ \A c \in Scopes : Parent(c) # cfg

\* the Config is destroyed and a Config constructed next gets its id():
\* the store and the dict part are new, Option._instances[id] is the old one
DoReuse ==
    \E cfg \in inputs.scopes :
        /\ Unreferenced(cfg)
        /\ d' = [d EXCEPT ![cfg] = [n \in Names |-> NoEntry]]
        /\ items' = [items EXCEPT ![cfg] = <<>>]
        /\ lastError' = [lastError EXCEPT ![cfg] = NoError]
        /\ last' = [NoLast EXCEPT !.op = "reuse", !.cfg = cfg]
        /\ UNCHANGED <<opts, instances, inputs>>

\* two Configs, options with default hooks and with hooks of the user
InitCalls == InitWith([scopes |-> Scopes, names |-> {NameK},
                       values |-> {Str(<<"c">>)},
                       args |-> {HooksArgs}, resets |-> {FALSE},
                       updates |-> {[args |-> <<>>, kwargs |-> <<KeyValue(NameK, Str(<<"c">>))>>]}])

\* one Config, two names, and update calls with no, one and two positional
\* arguments
InitUpdate ==
    InitWith([scopes |-> {"root"}, names |-> {NameK, NameA},
              values |-> {Str(<<"a">>), Str(<<"c">>)},
              args |-> {ChoicesArgs}, resets |-> {FALSE},
              updates |->
                  {[args |-> <<>>, kwargs |-> <<KeyValue(NameK, Str(<<"a">>))>>],
                   [args |-> << <<KeyValue(NameK, Str(<<"a">>)), KeyValue(NameA, Str(<<"c">>))>> >>,
                    kwargs |-> <<>>],
                   [args |-> << <<KeyValue(NameK, Str(<<"c">>))>> >>,
                    kwargs |-> <<KeyValue(NameA, Str(<<"a">>))>>],
                   [args |-> << <<KeyValue(NameA, Str(<<"a">>))>>, <<KeyValue(NameK, Str(<<"a">>))>> >>,
                    kwargs |-> <<>>]}])

\* one Config, options with and without a transform of the user, and the
\* values the pipeline of Option.value tells apart
InitValues == InitWith([scopes |-> {"root"}, names |-> {NameK},
                        values |-> {None, Int(7), Bool(TRUE), Str(<<"4", "2">>),
                                    Str(<<"T", "r", "u", "e">>), Str(<<"c">>),
                                    Str(<<"{", "{">>), Str(<<"{", "a", "}">>)},
                        args |-> {PlainArgs, TransformArgs}, resets |-> {FALSE}, updates |-> {}])

Next == DoSet \/ DoSetDefault \/ DoCopy \/ DoUpdate

Spec == Init /\ [][Next]_vars

SpecScopes == InitScopes /\ [][Next]_vars
SpecChoices == InitChoices /\ [][Next]_vars
SpecValues == InitValues /\ [][Next]_vars

\* the calls that change no Config, next to those that do
NextCalls == Next \/ DoGet \/ DoOption \/ DoOptionCopy \/ DoUpdateCall

SpecCalls == InitCalls /\ [][NextCalls]_vars
SpecUpdate == InitUpdate /\ [][NextCalls]_vars

\* the calls on Configs, and Configs destroyed and their id() given anew
NextReuse == Next \/ DoReuse

SpecReuse == InitScopes /\ [][NextReuse]_vars

-----------------------------------------------------------------------------
(* Properties *)

\* the Option registered for a Config and a name
Canonical(cfg, name) == instances[Id(cfg)][name]

\* the last operation was an assignment that got as far as storing its value
Stored == "store" \in Range(last.trace)

\* C1: the Option first registered for a Config and a name stays the
\* registered one whatever keys later assignments are made with; the entry of
\* Config.__d and the one key of that name in the dict part are that Option;
\* and an assignment with a newly constructed key to a name registered
\* already keeps no second Option object.
C1_CanonicalIdentity ==
    [][/\ \A c \in Scopes, n \in Names :
            /\ Canonical(c, n) # NoInstance => Canonical(c, n)' = Canonical(c, n)
            /\ d'[c][n].has => /\ Canonical(c, n)' # NoInstance
                                /\ d'[c][n].opt = Canonical(c, n)'
       /\ \A c \in Scopes :
            \A i, j \in DOMAIN items'[c] :
                /\ items'[c][i].opt = instances'[Id(c)][opts'[items'[c][i].opt].name]
                /\ opts'[items'[c][i].opt].name = opts'[items'[c][j].opt].name => i = j
       /\ (/\ last'.op \in {"set", "setdefault"}
           /\ last'.form # "object"
           /\ Canonical(last'.cfg, last'.name) # NoInstance) => Len(opts') = Len(opts)
      ]_vars

\* C1 witness: a second assignment to a name, made with a newly constructed
\* key, went through, and the Config holds one entry for the name
C1_Witness ==
    /\ last.op = "set"
    /\ last.form \in {"str", "tuple", "option"}
    /\ last.had
    /\ last.exc = "none"
    /\ Len(items[last.cfg]) = 1
    /\ d[last.cfg][last.name].opt = Canonical(last.cfg, last.name)

\* C2: the Options registered under one name for two different Configs are
\* different objects, and every registered Option is linked to the Config it
\* is registered for.
C2_ScopeIndependence ==
    \A n \in Names :
        /\ \A a, b \in Scopes :
              (a # b /\ Canonical(a, n) # NoInstance /\ Canonical(b, n) # NoInstance)
                  => Canonical(a, n) # Canonical(b, n)
        /\ \A c \in Scopes :
              Canonical(c, n) # NoInstance => opts[Canonical(c, n)].config = c


\* the option.value of a raw value stored under a name that is no path name
Resolved(raw, cfg) == Coerce(Expand(raw, cfg))

C4_ReadReturnsResolved ==
    \A c \in Scopes, n \in Names :
        (/\ GetItem(State, c, n).exc = "none"
         /\ Value(State, GetOption(State, c, n).v).exc = "none")
            => GetItem(State, c, n).v = Value(State, GetOption(State, c, n).v).v

\* C4 amended: reading a key gives the raw value as it was assigned, in the
\* Config assigned to and in a child Config without an entry of its own.
C4_ReadReturnsRaw ==
    (last.op = "set" /\ Stored) =>
        \A c \in Scopes :
            (c = last.cfg \/ (Parent(c) = last.cfg /\ ~d[c][last.name].has))
                => GetItem(State, c, last.name) = Returned(last.value)

\* C4 witness: "42" was assigned in the root; the child reads the string
\* "42" while the option resolves to the int 42
C4_Witness ==
    /\ last.op = "set"
    /\ Stored
    /\ last.cfg = "root"
    /\ last.value = Str(<<"4", "2">>)
    /\ ~d["child"][NameK].has
    /\ GetItem(State, "child", NameK) = Returned(Str(<<"4", "2">>))
    /\ Value(State, GetOption(State, "child", NameK).v) = Returned(Int(42))

\* C5: a child without an entry for a name its parent holds reads the
\* parent's raw value and the parent's Option, in every state; and when the
\* child then assigns the name with a key that is no existing Option object,
\* the child reads its own value and the parent's entry, its registered
\* Option and that Option's attributes are unchanged.
C5_DelegationAndShadowing ==
    [][/\ \A n \in Names :
            (~d'["child"][n].has /\ d'["root"][n].has) =>
                /\ GetItem(State', "child", n) = Returned(d'["root"][n].raw)
                /\ GetOption(State', "child", n) = [exc |-> "none", v |-> d'["root"][n].opt]
       /\ \A n \in Names :
            (/\ last'.op = "set"
             /\ last'.cfg = "child"
             /\ last'.name = n
             /\ last'.form # "object"
             /\ ~d["child"][n].has
             /\ d["root"][n].has) =>
                /\ GetItem(State', "child", n) = Returned(last'.value)
                /\ d'["root"] = d["root"]
                /\ items'["root"] = items["root"]
                /\ instances'[Id("root")] = instances[Id("root")]
                /\ opts'[Canonical("root", n)] = opts[Canonical("root", n)]
      ]_vars

\* C5 witness: the child has just set a name of its own over the parent's,
\* and the two now read differently
C5_Witness ==
    /\ last.op = "set"
    /\ last.cfg = "child"
    /\ last.form = "str"
    /\ ~last.had
    /\ d["root"][last.name].has
    /\ GetItem(State, "child", last.name) = Returned(last.value)
    /\ GetItem(State, "root", last.name) # GetItem(State, "child", last.name)

\* C6: setdefault on a name the Config holds changes neither the stored
\* entry nor any Option, and takes no step of an assignment.
C6_SetDefaultKeepsPresent ==
    [][(last'.op = "setdefault" /\ d[last'.cfg][last'.name].has) =>
          /\ d'[last'.cfg][last'.name] = d[last'.cfg][last'.name]
          /\ opts' = opts
          /\ last'.trace = <<>>
      ]_vars

\* C7: assigning a value that is not None to a required option that holds
\* None goes through, and the option resolves afterwards.
C7_RequiredRecovers ==
    [][(/\ last'.op = "set"
        /\ d[last'.cfg][last'.name].has
        /\ opts[d[last'.cfg][last'.name].opt].required
        /\ d[last'.cfg][last'.name].raw = None
        /\ last'.value # None) =>
          /\ last'.exc = "none"
          /\ Value(State', instances'[Id(last'.cfg)][last'.name]).exc = "none"
      ]_vars

\* C8 as claimed: an assignment that fails validation leaves the new raw
\* value stored and readable, and in old_value the value stored before it.
C8_FailAfterMutateRawOld ==
    [][(last'.op = "set" /\ last'.exc = InvalidExc) =>
          /\ d'[last'.cfg][last'.name].raw = last'.value
          /\ GetItem(State', last'.cfg, last'.name) = Returned(last'.value)
          /\ opts'[instances'[Id(last'.cfg)][last'.name]].old_value
                = IF d[last'.cfg][last'.name].has THEN d[last'.cfg][last'.name].raw
                  ELSE None
      ]_vars

\* C8 amended: an assignment that fails validation leaves the new raw value
\* stored and readable, and in old_value the resolved form of the value
\* stored before it (None when nothing was stored).
C8_FailAfterMutate ==
    [][(last'.op = "set" /\ last'.exc = InvalidExc) =>
          /\ d'[last'.cfg][last'.name].raw = last'.value
          /\ GetItem(State', last'.cfg, last'.name) = Returned(last'.value)
          /\ opts'[instances'[Id(last'.cfg)][last'.name]].old_value
                = IF d[last'.cfg][last'.name].has
                  THEN Resolved(d[last'.cfg][last'.name].raw, last'.cfg)
                  ELSE None
      ]_vars

\* C8 witness: an assignment over an earlier value failed validation, and the
\* value it was given is what the Config now reads
C8_Witness ==
    /\ last.op = "set"
    /\ last.exc = InvalidExc
    /\ last.had
    /\ GetItem(State, last.cfg, last.name) = Returned(last.value)
    /\ opts[Canonical(last.cfg, last.name)].old_value # last.value

\* the last operation was an assignment whose validation passed
Validated ==
    /\ last.op = "set"
    /\ "validate" \in Range(last.trace)
    /\ last.exc \notin {InvalidExc, RequiredExc}

\* C9: an assignment that passes validation and whose callback raises
\* returns without an exception, with the value stored, readable and in the
\* dict part, and the callback's message in _last_error.
C9_CallbackFailureSwallowed ==
    (Validated /\ opts[Canonical(last.cfg, last.name)].callback = "raise") =>
        /\ last.exc = "none"
        /\ GetItem(State, last.cfg, last.name) = Returned(last.value)
        /\ \E i \in DOMAIN items[last.cfg] :
              items[last.cfg][i] = [opt |-> Canonical(last.cfg, last.name),
                                    val |-> last.value]
        /\ lastError[last.cfg] = CallbackMessage

\* C9 witness: an assignment to an option with a raising callback returned
C9_Witness ==
    /\ Validated
    /\ opts[Canonical(last.cfg, last.name)].callback = "raise"
    /\ last.exc = "none"
    /\ lastError[last.cfg] = CallbackMessage

\* the positions of a step in the steps of the last operation
Positions(step) == {i \in DOMAIN last.trace : last.trace[i] = step}

\* C10: an assignment that passes validation to an option with _reset calls
\* reset() once, after the callback, also when the callback raised; an
\* assignment to an option without _reset never calls it.
C10_ResetCascade ==
    last.op = "set" =>
        LET o == Canonical(last.cfg, last.name)
        IN  /\ (Validated /\ opts[o].reset) =>
                  /\ Cardinality(Positions("reset")) = 1
                  /\ \A i \in Positions("reset") : \E j \in Positions("callback") : j < i
            /\ ~opts[o].reset => Positions("reset") = {}

\* C10 witness: an option with _reset and a raising callback was assigned,
\* and reset() was the last step
C10_Witness ==
    /\ Validated
    /\ opts[Canonical(last.cfg, last.name)].reset
    /\ opts[Canonical(last.cfg, last.name)].callback = "raise"
    /\ last.trace[Len(last.trace)] = "reset"

\* C11: an assignment to an option whose validator is the default choices
\* check succeeds exactly when the lower-cased string form of the resolved new
\* value is among the lower-cased string forms of the choices, and raises the
\* invalid-value error otherwise, on the first and on every later assignment
\* (both ValueErrors of the source count as the invalid-value error here)
C11_ChoiceValidation ==
    [][last'.op = "set" /\ last'.name \in Names
       /\ instances'[Id(last'.cfg)][last'.name] # NoInstance
       /\ opts'[instances'[Id(last'.cfg)][last'.name]].validate = "choices"
       => LET o == opts'[instances'[Id(last'.cfg)][last'.name]]
              accepted == ChoicesValidate(Resolved(last'.value, last'.cfg), o.choices)
          IN  /\ last'.exc = "none" <=> accepted
              /\ last'.exc # "none" => last'.exc \in {InvalidExc, RequiredExc}]_vars

\* C12: o.copy() succeeds for every Option o and returns a new instance,
\* distinct from o and bound to no scope, whose name, description, required
\* flag, choices and hooks equal those of o
C12_OptionCopy ==
    [][last'.op = "option.copy"
       => /\ last'.exc = "none"
          /\ Len(opts') = Len(opts) + 1
          /\ opts'[Len(opts')].config = NoScope
          /\ \E o \in DOMAIN opts :
                /\ opts'[o] = opts[o]
                /\ \A f \in {"name", "description", "required", "hasChoices", "choices",
                              "transform", "validate", "callback"} :
                       opts'[Len(opts')][f] = opts[o][f]]_vars

\* C13: for an option constructed with a transform f, the resolved value is
\* f applied to the expanded, path-resolved and coerced form of the raw value;
\* with no transform given it is the coerced form itself
C13_TransformLast ==
    \A cfg \in inputs.scopes, n \in Names :
        d[cfg][n].has /\ opts[d[cfg][n].opt].config = cfg
        => LET opt == opts[d[cfg][n].opt]
               expanded == Expand(d[cfg][n].raw, cfg)
               coerced == Coerce(IF IsPathName(n) THEN PathExpand(expanded) ELSE expanded)
           IN  Value(State, d[cfg][n].opt)
                   = Returned(IF opt.transform = "user" THEN UserTransform(coerced)
                              ELSE coerced)

\* how often a step occurs in a sequence of steps
Count(trace, step) == Cardinality({i \in DOMAIN trace : trace[i] = step})

\* the name an entry of an update assigns to
EntryName(e) == IF e.key.obj # NoInstance THEN opts[e.key.obj].name ELSE e.key.name

\* an update with more than one positional argument raises the argument
\* error and changes neither a store nor the registry
UpdateArgumentError ==
    /\ last'.exc = TypeErrorExc
    /\ last'.trace = <<>>
    /\ State' = State

\* C14 as claimed: an update with at most one positional argument performs one
\* assignment for every key/value of the mapping and of the keyword arguments,
\* with its validation; one with more positional arguments fails with the
\* argument error before anything is assigned
C14_UpdateAssignsEveryEntry ==
    [][last'.op = "update"
       => IF last'.nargs > 1 THEN UpdateArgumentError
          ELSE /\ Count(last'.trace, "bind") = Len(last'.entries)
               /\ Count(last'.trace, "validate") = Len(last'.entries)]_vars

\* C14: an update with at most one positional argument performs the normal
\* assignments one after the other, mapping first, keyword arguments next,
\* until one of them raises: that exception ends the update and the entries
\* after it are not assigned. Every assignment before it was validated and
\* ran its callback, and when none raises every entry is assigned. An update
\* with more positional arguments fails with the argument error before
\* anything is assigned, the stores and the registry unchanged.
C14_UpdateUntilFirstFailure ==
    [][last'.op = "update"
       => IF last'.nargs > 1 THEN UpdateArgumentError
          ELSE LET entries == last'.entries
                   begun == Count(last'.trace, "bind")
                   done == IF last'.exc = "none" THEN begun ELSE begun - 1
                   stored == Count(last'.trace, "store")
               IN  /\ begun <= Len(entries)
                   /\ last'.exc = "none" => begun = Len(entries)
                   /\ last'.exc # "none" => begun >= 1
                   /\ Count(last'.trace, "validate") = stored
                   /\ stored >= done
                   /\ Count(last'.trace, "callback") = done
                   /\ \A i \in 1..stored :
                          (\A j \in (i + 1)..stored : EntryName(entries[j]) # EntryName(entries[i]))
                          => d'[last'.cfg][EntryName(entries[i])].raw = entries[i].value
                   /\ \A n \in Names :
                          (\A i \in 1..begun : EntryName(entries[i]) # n)
                          => d'[last'.cfg][n] = d[last'.cfg][n]]_vars

\* an update of two entries, both assigned and validated
C14_Witness ==
    /\ last.op = "update"
    /\ last.nargs = 1
    /\ Len(last.entries) = 2
    /\ last.exc = "none"
    /\ Count(last.trace, "validate") = 2
    /\ \A i \in 1..2 : d[last.cfg][last.entries[i].key.name].raw = last.entries[i].value

\* C15: in every Config, items() yields exactly the names keys() yields,
\* each once and in the same ascending order, and these are the names stored
\* in the Config itself
C15_ItemsAndKeysAgree ==
    \A cfg \in inputs.scopes :
        LET yielded == Items(State, cfg)
            names == KeysOf(State, cfg)
        IN  /\ yielded.exc = "none"
            /\ [i \in DOMAIN yielded.v |-> yielded.v[i].name] = names
            /\ \A i, j \in DOMAIN names : i < j => NameLess(names[i], names[j])
            /\ Range(names) = {n \in Names : d[cfg][n].has}

\* a Config and the Configs of its parent chain
RECURSIVE Chain(_)
Chain(cfg) == {cfg} \cup (IF Parent(cfg) # NoScope THEN Chain(Parent(cfg)) ELSE {})

\* C16: reading a key, by cfg[key] or by cfg.option(key), that neither the
\* Config nor a Config of its parent chain stores ends with the KeyError that
\* names the key, and changes no store, no Option and no registry entry
C16_MissingKeyRaises ==
    [][/\ last'.op \in {"get", "option"}
       /\ \A c \in Chain(last'.cfg) : last'.name \notin Names \/ ~d[c][last'.name].has
       => /\ last'.exc = KeyErrorExc
          /\ last'.named = last'.name
          /\ State' = State]_vars

\* a child asked for a name that neither it nor its parent stores, while the
\* parent stores another one
C16_Witness ==
    /\ last.op = "get"
    /\ last.cfg = "child"
    /\ last.name = NameA
    /\ last.exc = KeyErrorExc
    /\ last.named = NameA
    /\ d["root"][NameK].has
    /\ \A c \in Chain("child") : ~d[c][NameA].has

\* C17: after dst.copy(src, k) and a later assignment of k in dst, the
\* entries of the other Configs keep working from their own stores: the value
\* of the Option a Config holds for k and its tuple in items() are resolved
\* from the raw value stored in that Config
C17_CopyLeavesSource ==
    [][/\ last.op = "copy" /\ last.exc = "none"
       /\ last'.op = "set" /\ last'.cfg = last.cfg /\ last'.name = last.name
       => \A src \in inputs.scopes \ {last.cfg} :
              d'[src][last.name].has
              => /\ Value(State', GetOption(State', src, last.name).v)
                        = Returned(Resolved(d'[src][last.name].raw, src))
                 /\ \A i \in DOMAIN Items(State', src).v :
                        Items(State', src).v[i].name = last.name
                        => Items(State', src).v[i].value
                               = Resolved(d'[src][last.name].raw, src)]_vars

\* the steps of an assignment that nothing interrupts, to an option with _reset
SetSteps == <<"bind", "old_value", "store", "validate", "dict", "callback", "reset">>

\* C18: the steps of an assignment occur in the order bind, old_value, store,
\* validate, (dict,) callback, reset, reset only for an option with _reset; the
\* validator judges the new value; an assignment that returns has run them
\* all; and when validation fails, neither the callback nor reset() runs
C18_StepOrder ==
    [][last'.op = "set"
       => LET o == opts'[instances'[Id(last'.cfg)][last'.name]]
              new == Resolved(last'.value, last'.cfg)
              verdict == IF o.validate = "choices" THEN ChoicesValidate(new, o.choices)
                         ELSE UserValidate(new)
          IN  /\ \E n \in 1..Len(SetSteps) : last'.trace = SubSeq(SetSteps, 1, n)
              /\ last'.exc = "none" => Len(last'.trace) = IF o.reset THEN Len(SetSteps) ELSE Len(SetSteps) - 1
              /\ ("validate" \in Range(last'.trace) /\ o.validate # "none"
                      /\ ~(o.required /\ last'.value = None))
                 => (last'.exc = "none" <=> verdict) /\ last'.exc \in {"none", InvalidExc}
              /\ "callback" \in Range(last'.trace)
                 => d'[last'.cfg][last'.name].raw = last'.value
              /\ last'.exc = InvalidExc
                 => /\ last'.trace = SubSeq(SetSteps, 1, 4)
                    /\ lastError' = lastError]_vars

\* an option whose stored value was invalid is assigned a valid one: the
\* validator of the user passes it and every step up to the callback runs
C18_Witness ==
    /\ last.op = "set"
    /\ last.had
    /\ last.exc = "none"
    /\ last.trace = SubSeq(SetSteps, 1, 6)
    /\ opts[Canonical(last.cfg, last.name)].validate = "user"
    /\ opts[Canonical(last.cfg, last.name)].old_value = None
    /\ UserValidate(Resolved(last.value, last.cfg))

\* the attributes an Option is constructed with
Metadata == {"name", "description", "required", "hasChoices", "choices", "transform",
             "validate", "callback", "reset"}

\* the first assignment of a name in a Config whose id() has an Option
\* registered for the name already: the Config got the id() of a destroyed one
FirstAfterReuse ==
    /\ last'.op = "set"
    /\ ~last'.had
    /\ instances[Id(last'.cfg)][last'.name] # NoInstance

\* what holds of that assignment whatever becomes of old_value: the Option
\* registered for the destroyed Config stays the registered one and is the
\* one stored, with its metadata and hooks, linked to the new Config, and no
\* newly constructed Option is kept
ReusedOptionReturned ==
    LET o == instances[Id(last'.cfg)][last'.name]
    IN  /\ instances'[Id(last'.cfg)][last'.name] = o
        /\ d'[last'.cfg][last'.name].opt = o
        /\ \A f \in Metadata : opts'[o][f] = opts[o][f]
        /\ opts'[o].config = last'.cfg
        /\ Len(opts') = Len(opts)

\* no entry of the registry is ever removed or replaced
RegistryKept ==
    \A i \in Scopes, n \in Names :
        instances[i][n] # NoInstance => instances'[i][n] = instances[i][n]

\* C19 as claimed: the Option of the destroyed Config comes back with its old
\* metadata, hooks and old_value
C19_ReuseKeepsOldValue ==
    [][/\ RegistryKept
       /\ FirstAfterReuse
          => /\ ReusedOptionReturned
             /\ opts'[instances[Id(last'.cfg)][last'.name]].old_value
                    = opts[instances[Id(last'.cfg)][last'.name]].old_value]_vars

\* C19: registry entries are never removed, and the first assignment of a
\* name in a Config that got the id() of a destroyed one keeps the destroyed
\* Config's Option as the registered one, with its metadata and hooks, linked
\* to the new Config; its old_value is None after the assignment, since the
\* new Config had nothing stored
C19_ReuseReturnsOldOption ==
    [][/\ RegistryKept
       /\ FirstAfterReuse
          => /\ ReusedOptionReturned
             /\ opts'[instances[Id(last'.cfg)][last'.name]].old_value = None]_vars

\* a name is assigned by a string key in a Config that stores nothing under
\* it, and the registered Option is one declared with choices, which the
\* Option constructed from the string is not
C19_Witness ==
    /\ last.op = "set"
    /\ ~last.had
    /\ last.form = "str"
    /\ d[last.cfg][last.name].has
    /\ opts[Canonical(last.cfg, last.name)].hasChoices
    /\ opts[Canonical(last.cfg, last.name)].config = last.cfg

\* C20: for an option without a transform of the user and without a path
\* name, the resolved value is the integer for a raw string of digits, the
\* boolean for a raw string whose lower-cased form is "true" or "false", and
\* the raw value itself for every value that is no string and for every other
\* string without a placeholder
C20_CoercionRoundTrip ==
    \A cfg \in inputs.scopes, n \in Names :
        /\ d[cfg][n].has
        /\ opts[d[cfg][n].opt].config = cfg
        /\ opts[d[cfg][n].opt].transform = "none"
        /\ ~opts[d[cfg][n].opt].required
        /\ ~IsPathName(n)
        => LET raw == d[cfg][n].raw
               resolved == Value(State, d[cfg][n].opt)
           IN  IF raw.k # "str" THEN resolved = Returned(raw)
               ELSE IF raw.s # <<>> /\ \A i \in DOMAIN raw.s : raw.s[i] \in Range(Digits)
               THEN resolved.exc = "none" /\ resolved.v.k = "int"
                    /\ (raw.s[1] # "0" \/ Len(raw.s) = 1 => IntToStr(resolved.v.n) = raw.s)
               ELSE IF Lower(raw.s) \in {<<"t", "r", "u", "e">>, <<"f", "a", "l", "s", "e">>}
               THEN resolved = Returned(Bool(Lower(raw.s) = <<"t", "r", "u", "e">>))
               ELSE HasPlaceholder(raw.s) \/ resolved = Returned(raw)

=============================================================================
